---- MODULE Spec2Model ----
(***************************************************************************)
(* KratosNOVA: the contract lifecycle and evaluation engine.               *)
(*                                                                         *)
(* The five DynamoDB tables (contracts, submissions, agents, results, the  *)
(* Bedrock response cache) are the shared state.  Every Lambda handler is  *)
(* a process whose steps are its storage and model calls, one call per     *)
(* step, so that concurrent invocations interleave between calls exactly   *)
(* where the deployed functions can.                                       *)
(***************************************************************************)
EXTENDS Naturals, Integers, Sequences, FiniteSets, Bags, TLC

\* ------------------------------------------------------------- bounds
\* uuid4 ids are modelled as the next unused number of a finite pool.
MaxContracts == 2
MaxSubs == 2
\* Goals decomposed in one behaviour.
MaxGoals == 1
\* Storage / backend calls that may raise ClientError in one behaviour.
MaxFaults == 1
\* Critic invocations in flight at once.
MaxCritics == 2
\* Goal messages in one queue batch, and deliveries of that batch.
MaxBatch == 2
MaxDeliveries == 2
\* Scheduled orchestrator ticks, and contracts on the marketplace when
\* they run.
MaxTicks == 2
MaxListed == 3

ContractIds == 1..MaxContracts
SubIds == 1..MaxSubs
AgentIds == {"a1"}
\* Invocations of the submission Lambda; the Critic Lambda runs at most
\* MaxCritics evaluations at a time.
Submitters == {"w1"}

\* What the judge may put in "winning_submission_id": any id (one of the
\* contract's submissions or not), or nothing at all (NoWinner).
NoWinner == 0
JudgeAnswers == SubIds \cup {NoWinner}

\* Texts.  A text is a sequence of tokens so that the suffixes the code
\* appends (" (V2)", the reformulation failure note) stay visible.
V2Suffix == "(V2)"
FailNote == "(reformulation failed, please try again)"
ImprovedTexts == { <<"improved">> }
SubmissionData == "payload"

\* A JSON value found under "budget": a number, or something else (null).
JsonNumber(n) == [json |-> "number", value |-> n]
JsonNull == [json |-> "null", value |-> 0]

\* The "contracts" list the decomposition model may return: elements that
\* carry the four required fields and elements that miss one.
GoodElement == [title |-> <<"t1">>, description |-> <<"d1">>,
                contract_type |-> "TEXT", budget |-> JsonNumber(40),
                wellformed |-> TRUE]
BadElement == [title |-> <<"t1">>, description |-> <<>>,
               contract_type |-> "TEXT", budget |-> JsonNumber(0),
               wellformed |-> FALSE]
ModelLists == { <<>>, <<BadElement>>, <<GoodElement>>, <<GoodElement, BadElement>> }
ImageElement == [title |-> <<"t2">>, description |-> <<"d2">>,
                 contract_type |-> "IMAGE", budget |-> JsonNumber(60),
                 wellformed |-> TRUE]
\* An element with all four keys whose budget is not a number.
NullBudgetElement == [title |-> <<"t3">>, description |-> <<"d3">>,
                      contract_type |-> "RESEARCH", budget |-> JsonNull,
                      wellformed |-> TRUE]
DecompositionLists ==
    ModelLists \cup { <<GoodElement, ImageElement>>,
                      <<GoodElement, NullBudgetElement>> }

VARIABLES
    contracts,     \* Contracts table: contract_id -> item
    submissions,   \* Submissions table: submission_id -> item
    agents,        \* Agents table: agent_id -> reputation
    results,       \* Results table: <<goal_id, contract_id>> -> item
    cache,         \* Bedrock cache table: prompt -> stored response
    critic,        \* bag of the Critic invocations in flight: where each
                   \* is (pc) and what it has read so far
    submitter,     \* submission-handler invocations
    response,      \* what the last step returned to its caller, if anything
    faults,        \* ClientErrors raised so far
    increments,    \* history: reputation added on account of each contract
    orchestrator,  \* the Freelancer Orchestrator's tick: position and listing
    invocations,   \* history: the asynchronous agent invocations made
    copywriter,    \* one Copywriter invocation: its locals and, as history,
                   \* the backend calls and the submission posts it made
    decomposer,    \* the Goal Deconstructor's invocation on a queue batch:
                   \* its locals and, as history, its backend calls and saves
    stream         \* the Submissions table's stream: the change records the
                   \* Critic's event source has not handed over yet

vars == <<contracts, submissions, agents, results, cache, critic,
          submitter, response, faults, increments, orchestrator, invocations,
          copywriter, decomposer, stream>>

\* The freelancer side (orchestrator and agents), which the marketplace
\* handlers never touch.
freelancers == <<orchestrator, invocations, copywriter, decomposer>>

\* What a handler leaves alone unless it writes to the Submissions table
\* or is fed by its stream.
workers == <<freelancers, stream>>

stores == <<contracts, submissions, agents, results, cache>>

\* ------------------------------------------------------------ helpers
\* put_item: writes the whole item under its key, replacing an older one.
Put(table, key, item) ==
    [k \in DOMAIN table \cup {key} |-> IF k = key THEN item ELSE table[k]]

EmptyTable == [k \in {} |-> 0]

\* A storage or backend call raises ClientError.
CanFault == faults < MaxFaults

\* uuid.uuid4(): an id no item has yet.
FreshContractId == Cardinality(DOMAIN contracts) + 1
\* (a uuid4 that collided would be the id of a row already stored)
FreshSubId_Reused ==
    IF submissions = EmptyTable THEN 1 ELSE Cardinality(DOMAIN submissions)
FreshSubId == Cardinality(DOMAIN submissions) + 1
GoalsUsed == { contracts[c].goal_id : c \in DOMAIN contracts }
FreshGoalId == Cardinality(GoalsUsed) + 1

Response(handler, code, kind) ==
    [handler |-> handler, statusCode |-> code, kind |-> kind]
NoResponse == Response("none", 0, "none")

\* ------------------------------------------------- goals_manager handler
\* all(k in contract for k in [title, description, contract_type, budget])
HasRequiredFields(element) == element.wellformed

RECURSIVE ValidElements(_)
ValidElements(list) ==
    IF list = <<>> THEN <<>>
    ELSE IF HasRequiredFields(Head(list))
         THEN <<Head(list)>> \o ValidElements(Tail(list))
         ELSE ValidElements(Tail(list))

\* Decimal(str(contract.get("budget", 0))): the number itself, and a
\* decimal.InvalidOperation for anything that is not the text of a number.
IsDecimal(budget) == budget.json = "number"
ToDecimal(budget) == budget.value

\* The puts the loop of save_contracts_to_db hands to the batch writer:
\* malformed elements are skipped, and the loop ends at the first element
\* whose budget does not convert.  The writer flushes what it was given
\* when its with-block is left, also when it is left by an exception.
RECURSIVE Buffered(_)
Buffered(list) ==
    IF list = <<>> THEN <<>>
    ELSE IF ~HasRequiredFields(Head(list)) THEN Buffered(Tail(list))
    ELSE IF ~IsDecimal(Head(list).budget) THEN <<>>
    ELSE <<Head(list)>> \o Buffered(Tail(list))

ConversionFails(list) ==
    \E i \in 1..Len(list) :
        HasRequiredFields(list[i]) /\ ~IsDecimal(list[i].budget)

ContractItem(element, goal_id, from) ==
    [goal_id |-> goal_id, status |-> "OPEN", title |-> element.title,
     description |-> element.description,
     contract_type |-> element.contract_type,
     budget |-> ToDecimal(element.budget),
     \* history field, not stored by the code: the contract this one reposts
     reposted_from |-> from]

\* save_contracts_to_db: one put per element that has the required fields.
SaveContractsToDb(list, goal_id) ==
    LET valid == Buffered(list)
        base == Cardinality(DOMAIN contracts)
    IN [c \in DOMAIN contracts \cup (base + 1 .. base + Len(valid)) |->
          IF c \in DOMAIN contracts THEN contracts[c]
          ELSE ContractItem(valid[c - base], goal_id, 0)]

GoalsManagerHandler(list) ==
    /\ Cardinality(GoalsUsed) < MaxGoals
    /\ Cardinality(DOMAIN contracts) + Len(ValidElements(list)) <= MaxContracts
    /\ IF list = <<>>
       THEN /\ response' = Response("goals", 400, "no_contracts")
            /\ UNCHANGED contracts
       ELSE /\ contracts' = SaveContractsToDb(list, FreshGoalId)
            /\ response' = IF ConversionFails(list)
                           THEN Response("goals", 502, "crashed")
                           ELSE Response("goals", 202, "processing")
    /\ UNCHANGED workers
    /\ UNCHANGED <<submissions, agents, results, cache, critic,
                   submitter, faults, increments>>

\* except (ValueError, TypeError, JSONDecodeError): a request without a
\* description, a backend error or an answer that does not parse.
GoalsManagerRejects(reason) ==
    /\ response' = Response("goals", 400, reason)
    /\ UNCHANGED workers
    /\ UNCHANGED <<contracts, submissions, agents, results, cache, critic,
                   submitter, faults, increments>>

\* except ClientError: the batch writer raises after `written` of the
\* puts it was given have been applied.
GoalsManagerStorageError(list, written) ==
    /\ Cardinality(GoalsUsed) < MaxGoals
    /\ CanFault
    /\ written < Len(Buffered(list))
    /\ Cardinality(DOMAIN contracts) + written <= MaxContracts
    /\ faults' = faults + 1
    /\ contracts' = SaveContractsToDb(SubSeq(Buffered(list), 1, written),
                                      FreshGoalId)
    /\ response' = Response("goals", 500, "error")
    /\ UNCHANGED workers
    /\ UNCHANGED <<submissions, agents, results, cache, critic,
                   submitter, increments>>

\* ------------------------------------------------ agents_manager handler
RegisterAgent(agent_id) ==
    /\ agents' = Put(agents, agent_id, 0)
    /\ response' = Response("agents", 201, "registered")
    /\ UNCHANGED workers
    /\ UNCHANGED <<contracts, submissions, results, cache, critic,
                   submitter, faults, increments>>

\* ------------------------------------------- submissions_manager handler
\* contract.get("status") != "OPEN" is the rejection test, so a contract
\* accepts submissions exactly when its stored status is OPEN.
SubmissionGuardOpen_OnlyClosedRejected(contract) == contract.status # "CLOSED"
SubmissionGuardOpen(contract) == contract.status = "OPEN"

IdleSubmitter == [pc |-> "idle", contract_id |-> 0, agent_id |-> ""]

SubmitReturn(w, code, kind) ==
    /\ submitter' = [submitter EXCEPT ![w] = IdleSubmitter]
    /\ response' = Response("submissions", code, kind)

SubmissionItem_MarkedWinner(contract_id, agent_id) ==
    [contract_id |-> contract_id, agent_id |-> agent_id,
     submission_data |-> SubmissionData, is_winner |-> TRUE]

SubmissionItem(contract_id, agent_id) ==
    [contract_id |-> contract_id, agent_id |-> agent_id,
     submission_data |-> SubmissionData, is_winner |-> FALSE]

\* Steps 1-3 of the handler: validate the request, then get_item on the
\* contract.  agent_id = "" stands for a body without agent_id.
SubmitInvoke(w, contract_id, agent_id) ==
    /\ submitter[w].pc = "idle"
    /\ \/ /\ agent_id = ""
          /\ SubmitReturn(w, 400, "bad_request")
          /\ UNCHANGED faults
       \/ /\ agent_id # ""
          /\ CanFault
          /\ faults' = faults + 1
          /\ SubmitReturn(w, 500, "error")
       \/ /\ agent_id # ""
          /\ UNCHANGED faults
          /\ IF contract_id \notin DOMAIN contracts
             THEN SubmitReturn(w, 404, "not_found")
             ELSE IF ~SubmissionGuardOpen(contracts[contract_id])
             THEN SubmitReturn(w, 403, "closed")
             ELSE /\ FreshSubId \in SubIds
                  /\ submitter' = [submitter EXCEPT ![w] =
                         [pc |-> "put", contract_id |-> contract_id,
                          agent_id |-> agent_id]]
                  /\ response' = NoResponse
    /\ UNCHANGED workers
    /\ UNCHANGED <<contracts, submissions, agents, results, cache,
                   critic, increments>>

\* A record of the Submissions table's stream (NEW_IMAGE view): the kind
\* of change and, from the new image, the row's contract_id.
StreamRecord(eventName, submission_id, contract_id) ==
    [eventName |-> eventName, submission_id |-> submission_id,
     contract_id |-> contract_id]

\* Step 4: submissions_table.put_item with a fresh submission_id.  The new
\* row goes to the table's stream as an INSERT record.
SubmitPut(w) ==
    /\ submitter[w].pc = "put"
    /\ \/ /\ CanFault
          /\ faults' = faults + 1
          /\ SubmitReturn(w, 500, "error")
          /\ UNCHANGED <<submissions, stream>>
       \/ /\ FreshSubId \in SubIds
          /\ submissions' = Put(submissions, FreshSubId,
                 SubmissionItem(submitter[w].contract_id, submitter[w].agent_id))
          /\ stream' = stream \cup
                 { StreamRecord("INSERT", FreshSubId, submitter[w].contract_id) }
          /\ SubmitReturn(w, 201, "created")
          /\ UNCHANGED faults
    /\ UNCHANGED freelancers
    /\ UNCHANGED <<contracts, agents, results, cache, critic, increments>>

\* --------------------------------------------------- agent_critic handler
\* process_evaluation's guard: anything but OPEN is "No action taken".
CriticGuardOpen_OnlyClosedSkipped(contract) == contract.status # "CLOSED"
CriticGuardOpen(contract) == contract.status = "OPEN"

\* update_agent_reputation(winning_agent_id, 1)
ReputationScore_Doubled == 1 + 1
ReputationScore == 1

\* The locals of one invocation of process_evaluation.
NewEvaluation(contract_id) ==
    [pc |-> "get_submissions", contract_id |-> contract_id, subs |-> {},
     reps |-> EmptyTable, winner |-> NoWinner, text |-> <<>>]

Evaluations == BagToSet(critic)
EvaluationsOf(contract_id) == { e \in Evaluations : e.contract_id = contract_id }

\* process_evaluation returns: the invocation is over.
Finish(e, code, kind) ==
    /\ critic' = critic (-) SetToBag({e})
    /\ response' = Response("process_evaluation", code, kind)

\* The invocation goes on with new locals; nothing is returned yet.
Continue(e, locals) ==
    /\ critic' = (critic (-) SetToBag({e})) (+) SetToBag({locals})
    /\ response' = NoResponse

Goto(e, pc) == Continue(e, [e EXCEPT !.pc = pc])

\* SET #s = :val, with no condition on the stored status.
UpdateContractStatus(contract_id, status) ==
    [contracts EXCEPT ![contract_id].status = status]

\* get_submissions_for_contract: the contract-id-index query.
SubmissionsForContract(contract_id) ==
    { s \in DOMAIN submissions : submissions[s].contract_id = contract_id }

\* The prompts whose sha256 keys the cache.  The hash is taken as
\* collision-free: two prompts share a key only when they are the same text.
SelectPrompt(contract_id, subs, reps) ==
    [op |-> "select_winner",
     title |-> contracts[contract_id].title,
     description |-> contracts[contract_id].description,
     submissions |-> { [id |-> s,
                        content |-> submissions[s].submission_data,
                        author_reputation |-> reps[s]] : s \in subs }]

ReformulatePrompt(contract_id) ==
    [op |-> "reformulate", title |-> <<>>,
     description |-> contracts[contract_id].description, submissions |-> {}]

CacheItem(winner, text) == [winning_submission_id |-> winner, text |-> text]

\* handler, around process_evaluation: what the trigger source gets.  For a
\* stream record the result is dropped, a ValueError or ClientError would
\* be caught and logged, and the answer is 200 "Stream event processed.";
\* for POST /contracts/{id}/evaluate it is process_evaluation's result.
Handler(trigger, result) ==
    IF trigger = "stream"
    THEN [raised |-> FALSE,
          response |-> Response("handler", 200, "stream_processed")]
    ELSE [raised |-> FALSE, response |-> result]

\* process_evaluation's entry: get_contract and the OPEN guard.
ProcessEvaluation(contract_id) ==
    \/ /\ CanFault
       /\ faults' = faults + 1
       /\ response' = Response("process_evaluation", 500, "error")
       /\ UNCHANGED critic
    \/ /\ UNCHANGED faults
       /\ IF contract_id \notin DOMAIN contracts
          THEN /\ response' = Response("process_evaluation", 500, "not_found")
               /\ UNCHANGED critic
          ELSE IF ~CriticGuardOpen(contracts[contract_id])
          THEN /\ response' = Response("process_evaluation", 200, "not_open")
               /\ UNCHANGED critic
          ELSE /\ BagCardinality(critic) < MaxCritics
               /\ critic' = critic (+) SetToBag({NewEvaluation(contract_id)})
               /\ response' = NoResponse

\* handler + get_contract.  A stream invocation carries one INSERT record
\* (batch_size = 1) of a row of the Submissions table, delivered at least
\* once; a manual one names any contract id.
CriticInvoke(trigger, contract_id) ==
    /\ trigger = "stream" => SubmissionsForContract(contract_id) # {}
    /\ ProcessEvaluation(contract_id)
    /\ UNCHANGED workers
    /\ UNCHANGED <<contracts, submissions, agents, results, cache, submitter,
                   increments>>

\* handler, stream branch, lines 51-57: only an INSERT record whose new
\* image carries a contract_id reaches process_evaluation.
StreamStarts_AnyRecord(record) == record.contract_id # 0
StreamStarts(record) ==
    record.eventName = "INSERT" /\ record.contract_id # 0

\* The event source hands one record of the stream (batch_size = 1) to the
\* handler.  Whatever process_evaluation does, the handler returns 200
\* "Stream event processed." (a ValueError or ClientError ends as a 500
\* result that is dropped), so the record is never handed over again.
CriticStreamRecord(record) ==
    /\ record \in stream
    /\ stream' = stream \ {record}
    /\ IF StreamStarts(record)
       THEN ProcessEvaluation(record.contract_id)
       ELSE /\ response' = Response("handler", 200, "stream_processed")
            /\ UNCHANGED <<faults, critic>>
    /\ UNCHANGED freelancers
    /\ UNCHANGED <<contracts, submissions, agents, results, cache, submitter,
                   increments>>

\* With no submission the evaluation turns to reformulation, which needs a
\* fresh contract id.
CriticGetSubmissions(e) ==
    /\ e.pc = "get_submissions"
    /\ \/ /\ CanFault
          /\ faults' = faults + 1
          /\ Finish(e, 500, "error")
       \/ /\ UNCHANGED faults
          /\ LET subs == SubmissionsForContract(e.contract_id)
             IN /\ subs = {} => FreshContractId \in ContractIds
                /\ Continue(e, [e EXCEPT
                                  !.subs = subs,
                                  !.pc = IF subs = {} THEN "reform_lookup"
                                         ELSE "enrich"])
    /\ UNCHANGED workers
    /\ UNCHANGED <<contracts, submissions, agents, results, cache, submitter,
                   increments>>

\* enrich_submissions_with_reputation: one batch_get_item; a ClientError
\* is logged and every reputation is taken as 0.
Reputation(agent_id) == IF agent_id \in DOMAIN agents THEN agents[agent_id] ELSE 0

CriticEnrich(e) ==
    /\ e.pc = "enrich"
    /\ \/ /\ CanFault
          /\ faults' = faults + 1
          /\ Continue(e, [e EXCEPT !.reps = [s \in e.subs |-> 0],
                                   !.pc = "select_lookup"])
       \/ /\ UNCHANGED faults
          /\ Continue(e, [e EXCEPT
                            !.reps = [s \in e.subs |->
                                        Reputation(submissions[s].agent_id)],
                            !.pc = "select_lookup"])
    /\ UNCHANGED workers
    /\ UNCHANGED <<contracts, submissions, agents, results, cache, submitter,
                   increments>>

AfterSelect_TrustsJudge(e, winner) ==
    IF winner = NoWinner THEN Finish(e, 500, "no_winner")
    ELSE Continue(e, [e EXCEPT !.winner = winner, !.pc = "update_winner"])

\* process_evaluation lines 111-121, on the winner id select_winner returned:
\* no id is a ValueError; an id that is none of the fetched submissions
\* gives no winner item and goes straight to update_contract_status.
AfterSelect(e, winner) ==
    IF winner = NoWinner THEN Finish(e, 500, "no_winner")
    ELSE Continue(e, [e EXCEPT
                        !.winner = winner,
                        !.pc = IF winner \in e.subs THEN "update_winner"
                               ELSE "update_status"])

\* select_winner up to the Bedrock answer: cache get_item, and on a miss
\* (or a cache read error, which is only logged) invoke_model and parse.
\* A backend error or an unparseable answer is a ValueError.
CriticSelectLookup(e) ==
    /\ e.pc = "select_lookup"
    /\ LET key == SelectPrompt(e.contract_id, e.subs, e.reps)
       IN \/ /\ key \in DOMAIN cache
             /\ UNCHANGED faults
             /\ AfterSelect(e, cache[key].winning_submission_id)
          \/ /\ \/ key \notin DOMAIN cache /\ UNCHANGED faults
                \/ CanFault /\ faults' = faults + 1
             /\ \/ \E answer \in JudgeAnswers :
                      Continue(e, [e EXCEPT !.winner = answer,
                                            !.pc = "select_store"])
                \/ Finish(e, 500, "select_failed")
    /\ UNCHANGED workers
    /\ UNCHANGED <<contracts, submissions, agents, results, cache, submitter,
                   increments>>

\* select_winner's cache put_item; its ClientError is re-raised as ValueError.
CriticSelectStore(e) ==
    /\ e.pc = "select_store"
    /\ \/ /\ CanFault
          /\ faults' = faults + 1
          /\ Finish(e, 500, "select_failed")
          /\ UNCHANGED cache
       \/ /\ UNCHANGED faults
          /\ cache' = Put(cache, SelectPrompt(e.contract_id, e.subs, e.reps),
                          CacheItem(e.winner, <<>>))
          /\ AfterSelect(e, e.winner)
    /\ UNCHANGED workers
    /\ UNCHANGED <<contracts, submissions, agents, results, submitter,
                   increments>>

\* update_winner_submission: SET is_winner = true.  An update that changes
\* the row goes to the table's stream as a MODIFY record.
CriticUpdateWinner(e) ==
    /\ e.pc = "update_winner"
    /\ \/ /\ CanFault
          /\ faults' = faults + 1
          /\ Finish(e, 500, "error")
          /\ UNCHANGED <<submissions, stream>>
       \/ /\ UNCHANGED faults
          /\ submissions' = [submissions EXCEPT ![e.winner].is_winner = TRUE]
          /\ stream' = IF submissions[e.winner].is_winner THEN stream
                       ELSE stream \cup
                            { StreamRecord("MODIFY", e.winner,
                                           submissions[e.winner].contract_id) }
          /\ Goto(e, "update_reputation")
    /\ UNCHANGED freelancers
    /\ UNCHANGED <<contracts, agents, results, cache, submitter, increments>>

CriticUpdateReputation_Escalates(e) ==
    /\ e.pc = "update_reputation"
    /\ LET agent_id == submissions[e.winner].agent_id
       IN \/ /\ CanFault
             /\ faults' = faults + 1
             /\ Finish(e, 500, "error")
             /\ UNCHANGED <<agents, increments>>
          \/ /\ UNCHANGED faults
             /\ agents' = Put(agents, agent_id, Reputation(agent_id) + ReputationScore)
             /\ increments' = [increments EXCEPT ![e.contract_id] =
                                  @ + ReputationScore]
             /\ Goto(e, "save_result")
    /\ UNCHANGED workers
    /\ UNCHANGED <<contracts, submissions, results, cache, submitter>>

\* update_agent_reputation: ADD reputation :inc (creates the item when the
\* agent is unknown); a ClientError is logged and swallowed.
CriticUpdateReputation(e) ==
    /\ e.pc = "update_reputation"
    /\ LET agent_id == submissions[e.winner].agent_id
       IN \/ /\ CanFault
             /\ faults' = faults + 1
             /\ UNCHANGED <<agents, increments>>
          \/ /\ UNCHANGED faults
             /\ agents' = Put(agents, agent_id, Reputation(agent_id) + ReputationScore)
             /\ increments' = [increments EXCEPT ![e.contract_id] =
                                  @ + ReputationScore]
    /\ Goto(e, "save_result")
    /\ UNCHANGED workers
    /\ UNCHANGED <<contracts, submissions, results, cache, submitter>>

\* save_final_result: put_item keyed by (goal_id, contract_id); a
\* ClientError is logged and swallowed.
ResultItem(winner) ==
    [winning_submission_id |-> winner,
     winning_agent_id |-> submissions[winner].agent_id]

CriticSaveResult(e) ==
    /\ e.pc = "save_result"
    /\ \/ /\ CanFault
          /\ faults' = faults + 1
          /\ UNCHANGED results
       \/ /\ UNCHANGED faults
          /\ results' = Put(results, <<contracts[e.contract_id].goal_id, e.contract_id>>,
                            ResultItem(e.winner))
    /\ Goto(e, "update_status")
    /\ UNCHANGED workers
    /\ UNCHANGED <<contracts, submissions, agents, cache, submitter, increments>>

\* update_contract_status(contract_id, "CLOSED") and the 200 response.
CriticCloseContract(e) ==
    /\ e.pc = "update_status"
    /\ \/ /\ CanFault
          /\ faults' = faults + 1
          /\ Finish(e, 500, "error")
          /\ UNCHANGED contracts
       \/ /\ UNCHANGED faults
          /\ contracts' = UpdateContractStatus(e.contract_id, "CLOSED")
          /\ Finish(e, 200, "selected")
    /\ UNCHANGED workers
    /\ UNCHANGED <<submissions, agents, results, cache, submitter, increments>>

\* ----------------------------------------- reformulate_and_repost_contract
\* old_description + " (reformulation failed, please try again)"
FallbackDescription_Unmarked(contract_id) == contracts[contract_id].description
FallbackDescription(contract_id) == Append(contracts[contract_id].description, FailNote)

\* The improved description: cache get_item, and on a miss invoke_model.
\* Every ClientError / parse error on the way gives the fallback text.
CriticReformLookup(e) ==
    /\ e.pc = "reform_lookup"
    /\ LET c == e.contract_id
           key == ReformulatePrompt(c)
       IN \/ /\ CanFault
             /\ faults' = faults + 1
             /\ Continue(e, [e EXCEPT !.text = FallbackDescription(c),
                                      !.pc = "mark_reposted"])
          \/ /\ key \in DOMAIN cache
             /\ UNCHANGED faults
             /\ Continue(e, [e EXCEPT !.text = cache[key].text,
                                      !.pc = "mark_reposted"])
          \/ /\ key \notin DOMAIN cache
             /\ UNCHANGED faults
             /\ \/ \E text \in ImprovedTexts :
                      Continue(e, [e EXCEPT !.text = text, !.pc = "reform_store"])
                \/ Continue(e, [e EXCEPT !.text = FallbackDescription(c),
                                         !.pc = "mark_reposted"])
    /\ UNCHANGED workers
    /\ UNCHANGED <<contracts, submissions, agents, results, cache, submitter,
                   increments>>

\* The cache put_item of the reformulation, inside the same try block.
CriticReformStore(e) ==
    /\ e.pc = "reform_store"
    /\ \/ /\ CanFault
          /\ faults' = faults + 1
          /\ Continue(e, [e EXCEPT !.text = FallbackDescription(e.contract_id),
                                   !.pc = "mark_reposted"])
          /\ UNCHANGED cache
       \/ /\ UNCHANGED faults
          /\ cache' = Put(cache, ReformulatePrompt(e.contract_id),
                          CacheItem(NoWinner, e.text))
          /\ Goto(e, "mark_reposted")
    /\ UNCHANGED workers
    /\ UNCHANGED <<contracts, submissions, agents, results, submitter,
                   increments>>

\* update_contract_status(contract_id, "FAILED_REPOSTED")
CriticMarkReposted(e) ==
    /\ e.pc = "mark_reposted"
    /\ \/ /\ CanFault
          /\ faults' = faults + 1
          /\ Finish(e, 500, "error")
          /\ UNCHANGED contracts
       \/ /\ UNCHANGED faults
          /\ contracts' = UpdateContractStatus(e.contract_id, "FAILED_REPOSTED")
          /\ Goto(e, "put_new_contract")
    /\ UNCHANGED workers
    /\ UNCHANGED <<submissions, agents, results, cache, submitter, increments>>

\* new_contract_item: same goal_id, contract_type and budget, title + " (V2)".
NewContractItem(original_id, description) ==
    LET original == contracts[original_id]
    IN [goal_id |-> original.goal_id, status |-> "OPEN",
        title |-> Append(original.title, V2Suffix),
        description |-> description,
        contract_type |-> original.contract_type, budget |-> original.budget,
        reposted_from |-> original_id]

\* contracts_table.put_item(Item=new_contract_item) and the 200 response.
CriticPutNewContract(e) ==
    /\ e.pc = "put_new_contract"
    /\ \/ /\ CanFault
          /\ faults' = faults + 1
          /\ Finish(e, 500, "error")
          /\ UNCHANGED contracts
       \/ /\ UNCHANGED faults
          /\ FreshContractId \in ContractIds
          /\ contracts' = Put(contracts, FreshContractId,
                              NewContractItem(e.contract_id, e.text))
          /\ Finish(e, 200, "reformulated")
    /\ UNCHANGED workers
    /\ UNCHANGED <<submissions, agents, results, cache, submitter, increments>>

\* ---------------------------------------------- results_manager handler
\* results_table.query(KeyConditionExpression=Key('goal_id').eq(goal_id))
ResultsForGoal(goal_id) == { k \in DOMAIN results : k[1] = goal_id }

\* status = "COMPLETED" if items else "PROCESSING"
GoalStatus_Always(items) == "COMPLETED"
GoalStatus(items) == IF items # {} THEN "COMPLETED" ELSE "PROCESSING"

\* GET /goals/{goal_id}.  goal_id = 0 stands for a request without the
\* path parameter; any other id is queried, known or not.
ResultsManagerHandler(goal_id) ==
    /\ \/ /\ goal_id = 0
          /\ response' = Response("results", 400, "bad_request")
          /\ UNCHANGED faults
       \/ /\ goal_id # 0
          /\ CanFault
          /\ faults' = faults + 1
          /\ response' = Response("results", 500, "error")
       \/ /\ goal_id # 0
          /\ response' = Response("results", 200,
                                  GoalStatus(ResultsForGoal(goal_id)))
          /\ UNCHANGED faults
    /\ UNCHANGED workers
    /\ UNCHANGED <<contracts, submissions, agents, results, cache, critic,
                   submitter, increments>>

\* ------------------------------------------- freelancer_orchestrator
\* The tick's locals: the listing fetched from GET /contracts and the
\* position of the loop over it; tick counts the scheduled invocations.
IdleOrchestrator(tick) == [pc |-> "idle", listing |-> <<>>, next |-> 0, tick |-> tick]

\* contracts_manager.list_open_contracts: the scan filtered on status OPEN,
\* as the list the orchestrator reads from the response body.
OpenContractIds == { c \in DOMAIN contracts : contracts[c].status = "OPEN" }

RECURSIVE Listing(_)
Listing(ids) ==
    IF ids = {} THEN <<>>
    ELSE LET c == CHOOSE x \in ids : \A y \in ids : x <= y
         IN <<[contract_id |-> c,
               contract_type |-> contracts[c].contract_type,
               description |-> contracts[c].description]>>
            \o Listing(ids \ {c})

\* delegate_task: all([contract_id, contract_type, prompt]); a listed
\* contract always has its key and its type, its description may be empty.
IsWellFormed(contract) == contract.description # <<>>

\* delegate_task: the if / elif / else on contract_type.
TargetFor_DefaultsToCopywriter(contract_type) ==
    IF contract_type = "IMAGE" THEN "artist" ELSE "copywriter"
TargetFor(contract_type) ==
    IF contract_type = "IMAGE" THEN "artist"
    ELSE IF contract_type = "TEXT" THEN "copywriter"
    ELSE "none"

\* lambda_client.invoke(FunctionName=target_arn, InvocationType="Event",
\* Payload={"prompt": prompt, "contract_id": contract_id})
Invocation(tick, target, contract) ==
    [tick |-> tick, target |-> target, contract_id |-> contract.contract_id,
     prompt |-> contract.description]

\* handler, up to the loop: get_open_contracts over HTTP.  A request
\* error or a malformed body is re-raised and ends the tick.
OrchestratorTick ==
    /\ orchestrator.pc = "idle"
    /\ orchestrator.tick < MaxTicks
    /\ \/ /\ CanFault
          /\ faults' = faults + 1
          /\ orchestrator' = IdleOrchestrator(orchestrator.tick + 1)
          /\ response' = Response("orchestrator", 0, "raised")
       \/ /\ UNCHANGED faults
          /\ LET listing == Listing(OpenContractIds)
             IN IF listing = <<>>
                THEN /\ orchestrator' = IdleOrchestrator(orchestrator.tick + 1)
                     /\ response' = Response("orchestrator", 200, "no_contracts")
                ELSE /\ orchestrator' = [pc |-> "delegate", listing |-> listing,
                                         next |-> 1,
                                         tick |-> orchestrator.tick + 1]
                     /\ response' = NoResponse
    /\ UNCHANGED <<contracts, submissions, agents, results, cache, critic,
                   submitter, stream, increments, invocations, copywriter, decomposer>>

\* The for loop of the handler: on to the next listed contract, or the
\* 200 response after the last one.
DelegateNext ==
    IF orchestrator.next = Len(orchestrator.listing)
    THEN /\ orchestrator' = IdleOrchestrator(orchestrator.tick)
         /\ response' = Response("orchestrator", 200, "delegated")
    ELSE /\ orchestrator' = [orchestrator EXCEPT !.next = @ + 1]
         /\ response' = NoResponse

\* delegate_task's except ClientError: logged, and the loop goes on.
InvokeFailed_Raises ==
    /\ orchestrator' = IdleOrchestrator(orchestrator.tick)
    /\ response' = Response("orchestrator", 0, "raised")
InvokeFailed == DelegateNext

\* delegate_task(contract) for the contract the loop is at.
OrchestratorDelegate ==
    /\ orchestrator.pc = "delegate"
    /\ LET contract == orchestrator.listing[orchestrator.next]
           target == TargetFor(contract.contract_type)
       IN IF IsWellFormed(contract) /\ target # "none"
          THEN \/ /\ CanFault
                  /\ faults' = faults + 1
                  /\ UNCHANGED invocations
                  /\ InvokeFailed
               \/ /\ UNCHANGED faults
                  /\ invocations' = Append(invocations,
                         Invocation(orchestrator.tick, target, contract))
                  /\ DelegateNext
          ELSE /\ UNCHANGED <<faults, invocations>>
               /\ DelegateNext
    /\ UNCHANGED <<contracts, submissions, agents, results, cache, critic,
                   submitter, stream, increments, copywriter, decomposer>>

\* --------------------------------------------------- agent_copywriter
\* max_attempts = 2: full generation cycles of the self-correction loop.
MaxAttempts == 2
\* generate_and_parse_slogans(prompt, max_retries = 2)
MaxRetries_Three == 2 + 1
MaxRetries == 2
\* if quality_score >= 7
QualityThreshold_Six == 7 - 1
QualityThreshold == 7

\* What generate_text may bring back: an exception (re-raised as
\* ValueError), a text with no JSON array in it, a text whose bracketed
\* part does not decode, or a JSON array, which may be empty.
GenReplies ==
    { [kind |-> k, list |-> <<>>] : k \in {"error", "nolist", "badjson"} }
    \cup { [kind |-> "list", list |-> l] :
             l \in { <<>>, <<"s1", "s2">>, <<"s3", "s1">> } }

\* What the critique call may bring back: nothing that parses, or a JSON
\* object with or without its two keys.
CritiqueReplies ==
    { [parsed |-> FALSE, has_score |-> FALSE, quality_score |-> 0,
       has_justification |-> FALSE, justification |-> ""] }
    \cup { [parsed |-> TRUE, has_score |-> TRUE, quality_score |-> q,
            has_justification |-> TRUE, justification |-> "j1"] :
             q \in {6, 7, 10} }
    \cup { [parsed |-> TRUE, has_score |-> FALSE, quality_score |-> 0,
            has_justification |-> FALSE, justification |-> ""] }

\* critique_slogans: the parsed object, or the stand-in with score 1.
CritiqueSlogans(reply) ==
    IF reply.parsed THEN reply
    ELSE [parsed |-> TRUE, has_score |-> TRUE, quality_score |-> 1,
          has_justification |-> TRUE, justification |-> "unparsed"]

\* critique.get("quality_score", 0), critique.get("justification", ...)
QualityScore(critique) ==
    IF critique.has_score THEN critique.quality_score ELSE 0
Justification(critique) ==
    IF critique.has_justification THEN critique.justification
    ELSE "No specific feedback."

\* A prompt is the request text and the feedback appended to it so far.
InitialPrompt(text) == [request |-> text, feedback |-> <<>>]
ExtendedPrompt(prompt, critique) ==
    [prompt EXCEPT !.feedback =
        Append(@, [rated |-> QualityScore(critique),
                   critique |-> Justification(critique)])]

\* submission_text = final_slogans[0]
SubmissionText_Last(final_slogans) == final_slogans[Len(final_slogans)]
SubmissionText(final_slogans) == final_slogans[1]

IdleCopywriter ==
    [pc |-> "idle", contract_id |-> 0, prompt |-> InitialPrompt(<<>>),
     attempts |-> 0, retry |-> 0, slogans |-> <<>>, outcome |-> "none",
     gens |-> <<>>, crits |-> <<>>, posts |-> <<>>]

\* raise: the invocation ends in an error.
CopywriterRaise(locals) ==
    copywriter' = [locals EXCEPT !.pc = "done", !.outcome = "raised"]

\* The head of the while loop, reached after a cycle that accepted
\* nothing: one more cycle, or the ValueError after the loop.
CopywriterNextCycle(locals) ==
    IF locals.attempts < MaxAttempts
    THEN copywriter' = [locals EXCEPT !.pc = "generate", !.attempts = @ + 1,
                                      !.retry = 1, !.slogans = <<>>]
    ELSE CopywriterRaise(locals)

\* handler, up to the loop.  contract_id 0 and the empty prompt stand for
\* an event without them.
CopywriterInvoke(contract_id, text) ==
    /\ copywriter.pc = "idle"
    /\ LET locals == [copywriter EXCEPT !.contract_id = contract_id,
                                        !.prompt = InitialPrompt(text)]
       IN IF text = <<>> \/ contract_id = 0
          THEN CopywriterRaise(locals)
          ELSE CopywriterNextCycle(locals)
    /\ UNCHANGED <<contracts, submissions, agents, results, cache, critic,
                   submitter, stream, response, faults, increments, orchestrator,
                   invocations, decomposer>>

\* One pass of the for loop of generate_and_parse_slogans: generate_text
\* and the attempt to parse its output.
CopywriterGenerate(reply) ==
    /\ copywriter.pc = "generate"
    /\ LET locals == [copywriter EXCEPT !.gens =
                         Append(@, [cycle |-> copywriter.attempts,
                                    prompt |-> copywriter.prompt,
                                    reply |-> reply])]
       IN CASE reply.kind = "error" -> CopywriterRaise(locals)
            [] reply.kind = "list" ->
                 IF reply.list = <<>>
                 THEN CopywriterNextCycle(locals)
                 ELSE copywriter' = [locals EXCEPT !.pc = "critique",
                                                   !.slogans = reply.list]
            [] OTHER ->
                 IF copywriter.retry < MaxRetries
                 THEN copywriter' = [locals EXCEPT !.retry = @ + 1]
                 ELSE CopywriterRaise(locals)
    /\ UNCHANGED <<contracts, submissions, agents, results, cache, critic,
                   submitter, stream, response, faults, increments, orchestrator,
                   invocations, decomposer>>

\* critique_slogans and the quality check on its score.
CopywriterCritique(reply) ==
    /\ copywriter.pc = "critique"
    /\ LET critique == CritiqueSlogans(reply)
           locals == [copywriter EXCEPT !.crits =
                         Append(@, [cycle |-> copywriter.attempts,
                                    slogans |-> copywriter.slogans,
                                    critique |-> critique])]
       IN IF QualityScore(critique) >= QualityThreshold
          THEN copywriter' = [locals EXCEPT !.pc = "submit"]
          ELSE CopywriterNextCycle(
                  [locals EXCEPT !.prompt = ExtendedPrompt(@, critique)])
    /\ UNCHANGED <<contracts, submissions, agents, results, cache, critic,
                   submitter, stream, response, faults, increments, orchestrator,
                   invocations, decomposer>>

\* submit_work: the POST to /contracts/{contract_id}/submissions; an HTTP
\* error is raised.
CopywriterSubmit ==
    /\ copywriter.pc = "submit"
    /\ LET post == [contract_id |-> copywriter.contract_id,
                    content |-> SubmissionText(copywriter.slogans)]
       IN \/ /\ CanFault
             /\ faults' = faults + 1
             /\ CopywriterRaise([copywriter EXCEPT !.posts =
                                    Append(@, [post |-> post, ok |-> FALSE])])
          \/ /\ UNCHANGED faults
             /\ copywriter' = [copywriter EXCEPT
                                  !.posts = Append(@, [post |-> post, ok |-> TRUE]),
                                  !.pc = "done", !.outcome = "success"]
    /\ UNCHANGED <<contracts, submissions, agents, results, cache, critic,
                   submitter, stream, response, increments, orchestrator, invocations,
                   decomposer>>

\* --------------------------------------------------- goal_deconstructor
\* The body of a queue message: its goal description, "" when it has none.
GoalMessages == {"g1", "g2", ""}
Batches ==
    UNION { [1..n -> GoalMessages] : n \in 1..MaxBatch }

\* What invoke_model and the parsing of its answer may give: a ClientError,
\* a text with no JSON object or without the "contracts" list, or the list.
DecompositionReplies ==
    { [kind |-> k, list |-> <<>>] : k \in {"error", "unparseable"} }
    \cup { [kind |-> "list", list |-> l] : l \in DecompositionLists }

\* The prompt whose sha256 keys the cache: the fixed text around the goal.
DeconstructPrompt(user_goal) ==
    [op |-> "deconstruct", title |-> <<>>, description |-> <<user_goal>>,
     submissions |-> {}]

IdleDecomposer ==
    [pc |-> "idle", batch |-> <<>>, next |-> 0, list |-> <<>>,
     outcome |-> "none", deliveries |-> 0, calls |-> <<>>, saves |-> <<>>,
     outcomes |-> <<>>]

\* raise e: the invocation fails and the batch goes back to the queue.
DecomposerRaise(locals) ==
    decomposer' = [locals EXCEPT !.pc = "done", !.outcome = "raised",
                                 !.outcomes = Append(@, "raised")]

\* continue / end of the loop body: the next record, or the return.
DecomposerAdvance(locals) ==
    IF locals.next < Len(locals.batch)
    THEN decomposer' = [locals EXCEPT !.pc = "lookup", !.next = @ + 1,
                                      !.list = <<>>]
    ELSE decomposer' = [locals EXCEPT !.pc = "done", !.outcome = "returned",
                                      !.outcomes = Append(@, "returned")]

\* if not deconstructed_contracts: continue; otherwise on to the save.
DecomposerGot(locals, list) ==
    IF list = <<>> THEN DecomposerAdvance(locals)
    ELSE decomposer' = [locals EXCEPT !.pc = "save", !.list = list]

\* The queue hands a batch to the handler: a first delivery of any batch,
\* or one more delivery of the batch already delivered.
DecomposerInvoke(batch) ==
    /\ decomposer.pc \in {"idle", "done"}
    /\ decomposer.deliveries < MaxDeliveries
    /\ decomposer.pc = "done" => batch = decomposer.batch
    /\ decomposer' = [decomposer EXCEPT
                         !.pc = "lookup", !.batch = batch, !.next = 1,
                         !.list = <<>>, !.outcome = "none",
                         !.deliveries = @ + 1]
    /\ UNCHANGED <<contracts, submissions, agents, results, cache, critic,
                   submitter, stream, response, faults, increments, orchestrator,
                   invocations, copywriter>>

DecomposerLookup_CachesRawAnswer(reply) ==
    /\ decomposer.pc = "lookup"
    /\ LET user_goal == decomposer.batch[decomposer.next]
           key == DeconstructPrompt(user_goal)
           called == [decomposer EXCEPT !.calls = Append(@, user_goal)]
       IN IF user_goal = ""
          THEN /\ DecomposerAdvance(decomposer)
               /\ UNCHANGED <<faults, cache>>
          ELSE \/ /\ key \in DOMAIN cache
                  /\ UNCHANGED <<faults, cache>>
                  /\ DecomposerGot(decomposer, cache[key].text)
               \/ /\ \/ key \notin DOMAIN cache /\ UNCHANGED faults
                     \/ CanFault /\ faults' = faults + 1
                  /\ IF reply.kind = "list"
                     THEN /\ decomposer' = [called EXCEPT !.pc = "store",
                                                          !.list = reply.list]
                          /\ UNCHANGED cache
                     ELSE /\ DecomposerRaise(called)
                          /\ cache' = Put(cache, key, CacheItem(NoWinner, <<>>))
    /\ UNCHANGED <<contracts, submissions, agents, results, critic,
                   submitter, stream, response, increments, orchestrator,
                   invocations, copywriter>>

DecomposerLookup_IgnoresCache(reply) ==
    /\ decomposer.pc = "lookup"
    /\ LET user_goal == decomposer.batch[decomposer.next]
           called == [decomposer EXCEPT !.calls = Append(@, user_goal)]
       IN IF user_goal = ""
          THEN DecomposerAdvance(decomposer)
          ELSE IF reply.kind = "list"
               THEN decomposer' = [called EXCEPT !.pc = "store",
                                                 !.list = reply.list]
               ELSE DecomposerRaise(called)
    /\ UNCHANGED <<contracts, submissions, agents, results, cache, critic,
                   submitter, stream, response, faults, increments, orchestrator,
                   invocations, copywriter>>

\* One record, up to the model's answer: the description check, the cache
\* get_item and, on a miss or a cache read error, invoke_model and parsing.
DecomposerLookup(reply) ==
    /\ decomposer.pc = "lookup"
    /\ LET user_goal == decomposer.batch[decomposer.next]
           key == DeconstructPrompt(user_goal)
           called == [decomposer EXCEPT !.calls = Append(@, user_goal)]
       IN IF user_goal = ""
          THEN /\ DecomposerAdvance(decomposer)
               /\ UNCHANGED faults
          ELSE \/ /\ key \in DOMAIN cache
                  /\ UNCHANGED faults
                  /\ DecomposerGot(decomposer, cache[key].text)
               \/ /\ \/ key \notin DOMAIN cache /\ UNCHANGED faults
                     \/ CanFault /\ faults' = faults + 1
                  /\ IF reply.kind = "list"
                     THEN decomposer' = [called EXCEPT !.pc = "store",
                                                       !.list = reply.list]
                     ELSE DecomposerRaise(called)
    /\ UNCHANGED <<contracts, submissions, agents, results, cache, critic,
                   submitter, stream, response, increments, orchestrator,
                   invocations, copywriter>>

\* The cache put_item of a parsed answer; its ClientError is only logged.
DecomposerStore ==
    /\ decomposer.pc = "store"
    /\ \/ /\ CanFault
          /\ faults' = faults + 1
          /\ UNCHANGED cache
       \/ /\ UNCHANGED faults
          /\ cache' = Put(cache,
                          DeconstructPrompt(decomposer.batch[decomposer.next]),
                          CacheItem(NoWinner, decomposer.list))
    /\ DecomposerGot(decomposer, decomposer.list)
    /\ UNCHANGED <<contracts, submissions, agents, results, critic,
                   submitter, stream, response, increments, orchestrator,
                   invocations, copywriter>>

\* goal_id = goal-<uuid4> and save_contracts_to_db.  A ClientError of the
\* batch writer comes after `written` of its puts have been applied; a
\* budget that does not convert is an exception the handler does not
\* catch, which fails the invocation all the same.
DecomposerSave(written) ==
    /\ decomposer.pc = "save"
    /\ LET valid == Buffered(decomposer.list)
           base == Cardinality(DOMAIN contracts)
           saved == [decomposer EXCEPT !.saves =
                       Append(@, [delivery |-> decomposer.deliveries,
                                  record |-> decomposer.next,
                                  goal_id |-> FreshGoalId,
                                  valid |-> Len(valid),
                                  ids |-> base + 1 .. base + written])]
       IN /\ written <= Len(valid)
          /\ contracts' = SaveContractsToDb(SubSeq(valid, 1, written), FreshGoalId)
          /\ IF written = Len(valid)
             THEN /\ IF ConversionFails(decomposer.list)
                     THEN DecomposerRaise(saved)
                     ELSE DecomposerAdvance(saved)
                  /\ UNCHANGED faults
             ELSE /\ CanFault
                  /\ faults' = faults + 1
                  /\ DecomposerRaise(saved)
    /\ UNCHANGED <<submissions, agents, results, cache, critic,
                   submitter, stream, response, increments, orchestrator,
                   invocations, copywriter>>

\* ------------------------------------------------------- specification
Init ==
    /\ contracts = EmptyTable
    /\ submissions = EmptyTable
    /\ agents = EmptyTable
    /\ results = EmptyTable
    /\ cache = EmptyTable
    /\ critic = EmptyBag
    /\ submitter = [w \in Submitters |-> IdleSubmitter]
    /\ response = NoResponse
    /\ faults = 0
    /\ increments = [c \in ContractIds |-> 0]
    /\ orchestrator = IdleOrchestrator(0)
    /\ invocations = <<>>
    /\ copywriter = IdleCopywriter
    /\ decomposer = IdleDecomposer
    /\ stream = {}

Next ==
    \/ \E list \in ModelLists : GoalsManagerHandler(list)
    \/ \E w \in Submitters, c \in ContractIds, a \in AgentIds \cup {""} :
          SubmitInvoke(w, c, a)
    \/ \E w \in Submitters : SubmitPut(w)
    \/ \E t \in {"stream", "manual"}, c \in ContractIds : CriticInvoke(t, c)
    \/ \E e \in Evaluations : CriticGetSubmissions(e)
    \/ \E e \in Evaluations : CriticEnrich(e)
    \/ \E e \in Evaluations : CriticSelectLookup(e)
    \/ \E e \in Evaluations : CriticSelectStore(e)
    \/ \E e \in Evaluations : CriticUpdateWinner(e)
    \/ \E e \in Evaluations : CriticUpdateReputation(e)
    \/ \E e \in Evaluations : CriticSaveResult(e)
    \/ \E e \in Evaluations : CriticCloseContract(e)
    \/ \E e \in Evaluations : CriticReformLookup(e)
    \/ \E e \in Evaluations : CriticReformStore(e)
    \/ \E e \in Evaluations : CriticMarkReposted(e)
    \/ \E e \in Evaluations : CriticPutNewContract(e)

Spec == Init /\ [][Next]_vars

\* The same system with agent registration (POST /agents), evaluations
\* running one at a time.
NextAgents ==
    \/ \E a \in AgentIds : RegisterAgent(a)
    \/ \E list \in ModelLists : GoalsManagerHandler(list)
    \/ \E w \in Submitters, c \in ContractIds, a \in AgentIds \cup {""} :
          SubmitInvoke(w, c, a)
    \/ \E w \in Submitters : SubmitPut(w)
    \/ \E t \in {"stream", "manual"}, c \in ContractIds :
          critic = EmptyBag /\ CriticInvoke(t, c)
    \/ \E e \in Evaluations : CriticGetSubmissions(e)
    \/ \E e \in Evaluations : CriticEnrich(e)
    \/ \E e \in Evaluations : CriticSelectLookup(e)
    \/ \E e \in Evaluations : CriticSelectStore(e)
    \/ \E e \in Evaluations : CriticUpdateWinner(e)
    \/ \E e \in Evaluations : CriticUpdateReputation(e)
    \/ \E e \in Evaluations : CriticSaveResult(e)
    \/ \E e \in Evaluations : CriticCloseContract(e)
    \/ \E e \in Evaluations : CriticReformLookup(e)
    \/ \E e \in Evaluations : CriticReformStore(e)
    \/ \E e \in Evaluations : CriticMarkReposted(e)
    \/ \E e \in Evaluations : CriticPutNewContract(e)

SpecAgents == Init /\ [][NextAgents]_vars

\* The orchestrator's scheduled ticks over a marketplace of contracts of
\* every type the decomposition may have written.
ContractTypes == {"IMAGE", "TEXT", "RESEARCH", "VIDEO"}
ListedKinds ==
    { [contract_type |-> t, description |-> <<"d1">>, status |-> "OPEN"] :
        t \in ContractTypes }
    \cup { [contract_type |-> "TEXT", description |-> <<>>, status |-> "OPEN"],
           [contract_type |-> "TEXT", description |-> <<"d1">>, status |-> "CLOSED"] }

ListedItem(kind) ==
    [ContractItem([title |-> <<"t1">>, description |-> kind.description,
                   contract_type |-> kind.contract_type,
                   budget |-> JsonNumber(40)],
                  1, 0) EXCEPT !.status = kind.status]

ListedTables ==
    UNION { { [c \in 1..n |-> ListedItem(kinds[c])] :
                kinds \in [1..n -> ListedKinds] } : n \in 0..MaxListed }

InitOrchestrator ==
    /\ contracts \in ListedTables
    /\ submissions = EmptyTable
    /\ agents = EmptyTable
    /\ results = EmptyTable
    /\ cache = EmptyTable
    /\ critic = EmptyBag
    /\ submitter = [w \in Submitters |-> IdleSubmitter]
    /\ response = NoResponse
    /\ faults = 0
    /\ increments = [c \in ContractIds |-> 0]
    /\ orchestrator = IdleOrchestrator(0)
    /\ invocations = <<>>
    /\ copywriter = IdleCopywriter
    /\ decomposer = IdleDecomposer
    /\ stream = {}

NextOrchestrator ==
    \/ OrchestratorTick
    \/ OrchestratorDelegate

SpecOrchestrator == InitOrchestrator /\ [][NextOrchestrator]_vars

\* One Copywriter invocation against every sequence of backend replies.
NextCopywriter ==
    \/ \E c \in {0, 1}, text \in {<<>>, <<"d1">>} : CopywriterInvoke(c, text)
    \/ \E reply \in GenReplies : CopywriterGenerate(reply)
    \/ \E reply \in CritiqueReplies : CopywriterCritique(reply)
    \/ CopywriterSubmit

SpecCopywriter == Init /\ [][NextCopywriter]_vars

\* The Lambda runtime runs an invocation to its end.
SpecCopywriterFair == SpecCopywriter /\ WF_vars(NextCopywriter)

\* Goal decomposition: the POST /goals handler and the queue-driven
\* deconstructor, on the shared Contracts and cache tables.
NextGoals ==
    \/ \E list \in DecompositionLists : GoalsManagerHandler(list)
    \/ \E reason \in {"no_description", "model_failed"} :
          GoalsManagerRejects(reason)
    \/ \E list \in DecompositionLists, written \in 0..1 :
          GoalsManagerStorageError(list, written)
    \/ \E batch \in Batches : DecomposerInvoke(batch)
    \/ \E reply \in DecompositionReplies : DecomposerLookup(reply)
    \/ DecomposerStore
    \/ \E written \in 0..2 : DecomposerSave(written)

SpecGoals == Init /\ [][NextGoals]_vars

\* The three cached operations on the one cache table: evaluations of a
\* contract already on the marketplace, with or without a submission, run
\* one at a time, and deliveries of goal batches in between.
InitCache ==
    /\ contracts = [c \in {1} |-> ContractItem(GoodElement, 1, 0)]
    /\ submissions \in { EmptyTable,
                          [s \in {1} |-> SubmissionItem(1, "a1")] }
    /\ agents = EmptyTable
    /\ results = EmptyTable
    /\ cache = EmptyTable
    /\ critic = EmptyBag
    /\ submitter = [w \in Submitters |-> IdleSubmitter]
    /\ response = NoResponse
    /\ faults = 0
    /\ increments = [c \in ContractIds |-> 0]
    /\ orchestrator = IdleOrchestrator(0)
    /\ invocations = <<>>
    /\ copywriter = IdleCopywriter
    /\ decomposer = IdleDecomposer
    /\ stream = {}

NextCache ==
    \/ \E t \in {"stream", "manual"}, c \in ContractIds :
          /\ critic = EmptyBag
          /\ decomposer.pc \in {"idle", "done"}
          /\ CriticInvoke(t, c)
    \/ \E e \in Evaluations : CriticGetSubmissions(e)
    \/ \E e \in Evaluations : CriticEnrich(e)
    \/ \E e \in Evaluations : CriticSelectLookup(e)
    \/ \E e \in Evaluations : CriticSelectStore(e)
    \/ \E e \in Evaluations : CriticUpdateWinner(e)
    \/ \E e \in Evaluations : CriticUpdateReputation(e)
    \/ \E e \in Evaluations : CriticSaveResult(e)
    \/ \E e \in Evaluations : CriticCloseContract(e)
    \/ \E e \in Evaluations : CriticReformLookup(e)
    \/ \E e \in Evaluations : CriticReformStore(e)
    \/ \E e \in Evaluations : CriticMarkReposted(e)
    \/ \E e \in Evaluations : CriticPutNewContract(e)
    \/ \E batch \in Batches : critic = EmptyBag /\ DecomposerInvoke(batch)
    \/ \E reply \in DecompositionReplies : DecomposerLookup(reply)
    \/ DecomposerStore
    \/ \E written \in 0..2 : DecomposerSave(written)

SpecCache == InitCache /\ [][NextCache]_vars

\* The stream-driven Critic: submissions posted for a contract on the
\* marketplace, and the evaluations the records of the Submissions table's
\* stream start.
InitStream ==
    /\ contracts = [c \in {1} |-> ContractItem(GoodElement, 1, 0)]
    /\ submissions = EmptyTable
    /\ agents = EmptyTable
    /\ results = EmptyTable
    /\ cache = EmptyTable
    /\ critic = EmptyBag
    /\ submitter = [w \in Submitters |-> IdleSubmitter]
    /\ response = NoResponse
    /\ faults = 0
    /\ increments = [c \in ContractIds |-> 0]
    /\ orchestrator = IdleOrchestrator(0)
    /\ invocations = <<>>
    /\ copywriter = IdleCopywriter
    /\ decomposer = IdleDecomposer
    /\ stream = {}

NextSubmit ==
    \/ \E w \in Submitters, c \in ContractIds, a \in AgentIds \cup {""} :
          SubmitInvoke(w, c, a)
    \/ \E w \in Submitters : SubmitPut(w)

NextSelection ==
    \/ \E e \in Evaluations : CriticGetSubmissions(e)
    \/ \E e \in Evaluations : CriticEnrich(e)
    \/ \E e \in Evaluations : CriticUpdateWinner(e)
    \/ \E e \in Evaluations : CriticUpdateReputation(e)
    \/ \E e \in Evaluations : CriticSaveResult(e)
    \/ \E e \in Evaluations : CriticCloseContract(e)

NextStream ==
    \/ NextSubmit
    \/ \E record \in stream : CriticStreamRecord(record)
    \/ \E e \in Evaluations : CriticSelectLookup(e)
    \/ \E e \in Evaluations : CriticSelectStore(e)
    \/ NextSelection

SpecStream == InitStream /\ [][NextStream]_vars

\* The same with failures that are transient: of all the calls of a
\* behaviour at most MaxFaults fail, the judge's included (select_winner
\* fails only in a step that counts a fault, and the judge's answer always
\* carries a winning_submission_id).
TransientOnly ==
    /\ response' = Response("process_evaluation", 500, "select_failed")
          => faults' # faults
    /\ \A e \in BagToSet(critic') :
          e.pc = "select_store" => e.winner # NoWinner

\* What runs without anyone asking: the event source hands over every
\* record, and the Lambda runtime runs each invocation to its end (a
\* submission post that has begun included).
StreamDriven ==
    \/ \E w \in Submitters : SubmitPut(w)
    \/ \E record \in stream : CriticStreamRecord(record)
    \/ \E e \in Evaluations : CriticSelectLookup(e) /\ TransientOnly
    \/ \E e \in Evaluations : CriticSelectStore(e)
    \/ NextSelection

NextStreamTransient ==
    \/ NextSubmit
    \/ StreamDriven

SpecStreamFair ==
    InitStream /\ [][NextStreamTransient]_vars /\ WF_vars(StreamDriven)

\* A goal of two contracts, the submissions and stream-started evaluations
\* of each (one evaluation at a time), and the polling of the goal's
\* results through GET /goals/{goal_id}.
NextResults ==
    \/ \E list \in { <<>>, <<GoodElement, ImageElement>> } :
          GoalsManagerHandler(list)
    \/ NextSubmit
    \/ \E c \in ContractIds : critic = EmptyBag /\ CriticInvoke("stream", c)
    \/ \E e \in Evaluations : CriticSelectLookup(e)
    \/ \E e \in Evaluations : CriticSelectStore(e)
    \/ NextSelection
    \/ \E goal_id \in 0..(MaxGoals + 1) : ResultsManagerHandler(goal_id)

SpecResults == Init /\ [][NextResults]_vars

\* ------------------------------------------------------------- claims
ContractKey(c) == <<contracts[c].goal_id, c>>
Winners(c) == { s \in SubmissionsForContract(c) : submissions[s].is_winner }
Reposts(c) == { d \in DOMAIN contracts : contracts[d].reposted_from = c }
Triggers == {"stream", "manual"}

\* C1: a contract's status only ever changes from OPEN, and then to CLOSED
\* or to FAILED_REPOSTED; a CLOSED or FAILED_REPOSTED status never changes.
C1_StatusOnlyLeavesOpen ==
    [][\A c \in DOMAIN contracts :
          contracts'[c].status # contracts[c].status =>
             /\ contracts[c].status = "OPEN"
             /\ contracts'[c].status \in {"CLOSED", "FAILED_REPOSTED"}]_vars

\* C2: whenever no evaluation of a contract is in progress, at most one
\* of its submissions has is_winner = true.
C2_AtMostOneWinner ==
    \A c \in DOMAIN contracts :
        EvaluationsOf(c) = {} => Cardinality(Winners(c)) <= 1

\* C3: an evaluation invoked (by the stream or manually) on a contract
\* whose stored status is not OPEN returns 200 "No action taken", leaves
\* the five stores as they are and starts nothing that could call the model.
C3_NotOpenIsNoOp ==
    [][\A t \in Triggers, c \in DOMAIN contracts :
          (/\ contracts[c].status # "OPEN"
           /\ faults' = faults
           /\ CriticInvoke(t, c))
          => /\ response' = Response("process_evaluation", 200, "not_open")
             /\ UNCHANGED stores
             /\ UNCHANGED critic]_vars

C3_Witness ==
    /\ response = Response("process_evaluation", 200, "not_open")
    /\ \E c \in DOMAIN contracts : contracts[c].status = "CLOSED"
    /\ \E c \in DOMAIN contracts : contracts[c].status = "FAILED_REPOSTED"

\* C4: once a contract is FAILED_REPOSTED and its evaluations are over,
\* exactly one contract has been created for it, with the same goal_id
\* and another contract_id.
C4_ExactlyOneRepost ==
    \A c \in DOMAIN contracts :
        (contracts[c].status = "FAILED_REPOSTED" /\ EvaluationsOf(c) = {}) =>
           /\ Cardinality(Reposts(c)) = 1
           /\ \A d \in Reposts(c) :
                 d # c /\ contracts[d].goal_id = contracts[c].goal_id

\* C5: when select_winner runs for a contract and a set of submissions
\* for which the cache holds the answer of an earlier selection, it returns
\* that answer's winning_submission_id and does not call the judge.
C5_SameSubmissionsSameWinner ==
    [][\A e \in Evaluations : \A k \in DOMAIN cache :
          (/\ e.pc = "select_lookup"
           /\ k.op = "select_winner"
           /\ k.title = contracts[e.contract_id].title
           /\ k.description = contracts[e.contract_id].description
           /\ { [id |-> x.id, content |-> x.content] : x \in k.submissions }
                = { [id |-> s, content |-> submissions[s].submission_data] :
                      s \in e.subs }
           /\ faults' = faults
           /\ CriticSelectLookup(e))
          => AfterSelect(e, cache[k].winning_submission_id)]_vars

\* C6: a well-formed submission post for a contract whose stored status is
\* not OPEN is answered 403 "closed" and writes no submission row.
C6_ClosedContractRejects ==
    [][\A w \in Submitters, c \in DOMAIN contracts, a \in AgentIds :
          (/\ contracts[c].status # "OPEN"
           /\ faults' = faults
           /\ SubmitInvoke(w, c, a))
          => /\ response' = Response("submissions", 403, "closed")
             /\ submissions' = submissions
             /\ submitter'[w] = IdleSubmitter]_vars

C6_Witness ==
    /\ response = Response("submissions", 403, "closed")
    /\ \A w \in Submitters : submitter[w] = IdleSubmitter
    /\ \E c \in DOMAIN contracts : contracts[c].status # "OPEN"

\* C7: no submission row is written for a contract whose status is no
\* longer OPEN at the time of the write.
C7_NoRowAfterClose ==
    [][\A s \in DOMAIN submissions' \ DOMAIN submissions :
          contracts[submissions'[s].contract_id].status = "OPEN"]_vars

\* C8: two evaluations that both read OPEN before either writes CLOSED both
\* increment the winner's reputation, so one contract accounts for two
\* increments; every increment on account of a contract comes from an
\* evaluation that overlapped another one or whose closing write failed.
C8_IncrementPerEvaluation ==
    \A c \in ContractIds : increments[c] <= MaxCritics + faults

C8_Witness ==
    \E c \in DOMAIN contracts :
        /\ contracts[c].status = "OPEN"
        /\ faults = 0
        /\ increments[c] = 2
        /\ \E a \in DOMAIN agents : agents[a] = 2
        /\ Cardinality(EvaluationsOf(c)) = 2
        /\ \A e \in EvaluationsOf(c) : e.pc \in {"save_result", "update_status"}

\* C9: every CLOSED contract has a Result record under (goal_id,
\* contract_id) whose winning_submission_id is one of its submissions, and
\* a contract that is not CLOSED and is not being evaluated has none.
C9_ResultIffClosed ==
    \A c \in DOMAIN contracts :
        /\ contracts[c].status = "CLOSED" =>
              /\ ContractKey(c) \in DOMAIN results
              /\ results[ContractKey(c)].winning_submission_id
                    \in SubmissionsForContract(c)
        /\ (contracts[c].status # "CLOSED" /\ EvaluationsOf(c) = {}) =>
              ContractKey(c) \notin DOMAIN results

\* C10: every CLOSED contract has a submission with is_winner = true.
C10_ClosedHasWinner ==
    \A c \in DOMAIN contracts :
        contracts[c].status = "CLOSED" => Winners(c) # {}

\* C11: a registered agent's reputation never decreases and changes only
\* by +1, in the step in which the Critic credits a winning submission of
\* that agent; registering an agent_id again leaves its reputation alone.
C11_ReputationOnlyGrows ==
    [][\A a \in DOMAIN agents :
          /\ a \in DOMAIN agents'
          /\ \/ agents'[a] = agents[a]
             \/ /\ agents'[a] = agents[a] + 1
                /\ \E e \in Evaluations :
                      /\ e.pc = "update_reputation"
                      /\ submissions[e.winner].agent_id = a]_vars

\* C12: an evaluation whose judge response carries no
\* winning_submission_id ends with the 500 error and has written nothing:
\* no table differs after the step in which select_winner returns it.
C12_NoWinnerMutatesNothing ==
    [][\A e \in Evaluations :
          (/\ CriticSelectLookup(e) \/ CriticSelectStore(e)
           /\ response' = Response("process_evaluation", 500, "no_winner"))
          => UNCHANGED stores]_vars

\* C13: when the reputation update of the winning agent raises a storage
\* error, the evaluation goes on: the winner is already marked, no error
\* is returned, the Result record is written, the contract becomes CLOSED
\* and the invocation answers 200.  (An evaluation past the reputation
\* update whose contract has caused no increment is one whose update failed.)
C13_ReputationFailureIsNotFatal ==
    [][\A e \in Evaluations :
          (e.winner \in e.subs /\ increments[e.contract_id] = 0) =>
             /\ (CriticUpdateReputation(e) /\ faults' # faults) =>
                   /\ submissions[e.winner].is_winner
                   /\ response' = NoResponse
                   /\ [e EXCEPT !.pc = "save_result"] \in BagToSet(critic')
             /\ (CriticSaveResult(e) /\ faults' = faults) =>
                   /\ ContractKey(e.contract_id) \in DOMAIN results'
                   /\ results'[ContractKey(e.contract_id)].winning_submission_id
                         = e.winner
             /\ (CriticCloseContract(e) /\ faults' = faults) =>
                   /\ submissions[e.winner].is_winner
                   /\ contracts'[e.contract_id].status = "CLOSED"
                   /\ response' = Response("process_evaluation", 200, "selected")]_vars

C13_Witness ==
    /\ critic = EmptyBag
    /\ faults = 1
    /\ response = Response("process_evaluation", 200, "selected")
    /\ \E c \in DOMAIN contracts :
          /\ contracts[c].status = "CLOSED"
          /\ increments[c] = 0
          /\ agents = EmptyTable
          /\ Winners(c) # {}
          /\ ContractKey(c) \in DOMAIN results
          /\ results[ContractKey(c)].winning_submission_id \in Winners(c)

\* The invocations made for a contract in one tick.
InvocationsFor(c, tick) ==
    { k \in 1..Len(invocations) :
        invocations[k].contract_id = c /\ invocations[k].tick = tick }

TickDelegated ==
    /\ orchestrator.pc = "idle"
    /\ response = Response("orchestrator", 200, "delegated")

\* The agent each contract type belongs to: IMAGE to the Artist, TEXT to
\* the Copywriter, RESEARCH to the Analyst.
AgentOfType(contract_type) ==
    CASE contract_type = "IMAGE" -> "artist"
      [] contract_type = "TEXT" -> "copywriter"
      [] contract_type = "RESEARCH" -> "analyst"
      [] OTHER -> "none"

\* C14: after a tick in which no call failed, every OPEN contract with a
\* description and a type among IMAGE, TEXT, RESEARCH has exactly one
\* invocation of that tick, to the agent of its type, carrying its id and
\* description.
C14_EveryTypeDispatched ==
    (TickDelegated /\ faults = 0) =>
       \A c \in OpenContractIds :
          (/\ contracts[c].description # <<>>
           /\ contracts[c].contract_type \in {"IMAGE", "TEXT", "RESEARCH"})
          => /\ Cardinality(InvocationsFor(c, orchestrator.tick)) = 1
             /\ \A k \in InvocationsFor(c, orchestrator.tick) :
                   /\ invocations[k].target = AgentOfType(contracts[c].contract_type)
                   /\ invocations[k].prompt = contracts[c].description

\* C15: over all ticks, a contract is dispatched at most once.
C15_DispatchedAtMostOnce ==
    \A c \in DOMAIN contracts :
        Cardinality({ k \in 1..Len(invocations) :
                        invocations[k].contract_id = c }) <= 1

\* C16: a failed invocation does not end the tick: the loop goes on to the
\* next listed contract (or to the 200 response after the last one), and
\* at the end of the tick the IMAGE and TEXT contracts left without an
\* invocation are no more than the calls that failed.
C16_FailedInvokeDoesNotStopTick ==
    [][/\ (OrchestratorDelegate /\ faults' # faults) =>
             /\ orchestrator'.tick = orchestrator.tick
             /\ IF orchestrator.next < Len(orchestrator.listing)
                THEN /\ orchestrator'.pc = "delegate"
                     /\ orchestrator'.listing = orchestrator.listing
                     /\ orchestrator'.next = orchestrator.next + 1
                     /\ response' = NoResponse
                ELSE response' = Response("orchestrator", 200, "delegated")
       /\ response' = Response("orchestrator", 200, "delegated") =>
             /\ Cardinality({ c \in OpenContractIds :
                     /\ contracts[c].description # <<>>
                     /\ contracts[c].contract_type \in {"IMAGE", "TEXT"}
                     /\ ~\E k \in 1..Len(invocations') :
                           /\ invocations'[k].contract_id = c
                           /\ invocations'[k].tick = orchestrator'.tick })
                  <= faults'
             /\ \A k1, k2 \in 1..Len(invocations') :
                   (/\ invocations'[k1].contract_id = invocations'[k2].contract_id
                    /\ invocations'[k1].tick = invocations'[k2].tick) => k1 = k2]_vars

C16_Witness ==
    /\ TickDelegated
    /\ faults = 1
    /\ \E c1, c2, c3 \in OpenContractIds :
          /\ c1 < c2 /\ c2 < c3
          /\ \A c \in {c1, c2, c3} :
                /\ contracts[c].description # <<>>
                /\ contracts[c].contract_type \in {"IMAGE", "TEXT"}
          /\ InvocationsFor(c1, orchestrator.tick) # {}
          /\ InvocationsFor(c2, orchestrator.tick) = {}
          /\ InvocationsFor(c3, orchestrator.tick) # {}

\* C17: delegate_task on a listed contract whose type belongs to no agent
\* invokes nothing and raises nothing, and the loop goes on with the rest
\* of the listing.
C17_UnknownTypeIsSkipped ==
    [][(/\ OrchestratorDelegate
        /\ orchestrator.listing[orchestrator.next].contract_type
              \notin {"IMAGE", "TEXT", "RESEARCH"})
       => /\ invocations' = invocations
          /\ faults' = faults
          /\ orchestrator'.tick = orchestrator.tick
          /\ IF orchestrator.next < Len(orchestrator.listing)
             THEN /\ orchestrator'.pc = "delegate"
                  /\ orchestrator'.listing = orchestrator.listing
                  /\ orchestrator'.next = orchestrator.next + 1
                  /\ response' = NoResponse
             ELSE response' = Response("orchestrator", 200, "delegated")]_vars

C17_Witness ==
    /\ TickDelegated
    /\ faults = 0
    /\ \E c1, c2 \in OpenContractIds :
          /\ c1 < c2
          /\ contracts[c1].contract_type = "VIDEO"
          /\ contracts[c1].description # <<>>
          /\ contracts[c2].contract_type = "TEXT"
          /\ contracts[c2].description # <<>>
          /\ InvocationsFor(c1, orchestrator.tick) = {}
          /\ Cardinality(InvocationsFor(c2, orchestrator.tick)) = 1

\* ------------------------------------------------------------ Copywriter
CopywriterDone == copywriter.pc = "done"
ParsedNonEmpty(gen) == gen.reply.kind = "list" /\ gen.reply.list # <<>>
Unparseable(gen) == gen.reply.kind \in {"nolist", "badjson"}
GensOfCycle(k) ==
    { i \in 1..Len(copywriter.gens) : copywriter.gens[i].cycle = k }
Accepted ==
    { i \in 1..Len(copywriter.crits) :
        QualityScore(copywriter.crits[i].critique) >= 7 }

\* The case of C18: a valid event, every generation output a non-empty
\* list, the first critique below 7 and the second, once made, at least 7.
SecondCycleAccepted ==
    /\ CopywriterDone
    /\ Len(copywriter.gens) >= 1
    /\ \A i \in 1..Len(copywriter.gens) : ParsedNonEmpty(copywriter.gens[i])
    /\ Len(copywriter.crits) >= 1
    /\ QualityScore(copywriter.crits[1].critique) < 7
    /\ Len(copywriter.crits) >= 2
          => QualityScore(copywriter.crits[2].critique) >= 7

\* C18: when every generation output parses to a non-empty list, the first
\* cycle is scored below 7 and the second at least 7, the invocation makes
\* exactly two generation calls and two critique calls and posts exactly
\* one submission, whose content is the first candidate of the second
\* cycle's output, generated from the prompt extended with the first
\* critique's score and justification.
C18_SecondCycleSubmitted ==
    SecondCycleAccepted =>
        /\ Len(copywriter.gens) = 2
        /\ Len(copywriter.crits) = 2
        /\ Len(copywriter.posts) = 1
        /\ copywriter.posts[1].post =
              [contract_id |-> copywriter.contract_id,
               content |-> copywriter.gens[2].reply.list[1]]
        /\ copywriter.gens[2].prompt =
              [copywriter.gens[1].prompt EXCEPT !.feedback =
                  Append(@, [rated |-> QualityScore(copywriter.crits[1].critique),
                             critique |-> Justification(copywriter.crits[1].critique)])]

C18_Witness ==
    /\ SecondCycleAccepted
    /\ copywriter.outcome = "success"
    /\ copywriter.gens[2].reply.list = <<"s3", "s1">>
    /\ copywriter.gens[1].reply.list = <<"s1", "s2">>

\* C19: a submission is posted only after a cycle whose critique score was
\* at least 7, and its content is the first candidate that cycle judged;
\* at most one is posted; an invocation that ends with no cycle scored 7
\* or more, empty generations included, has failed and posted nothing.
C19_PostsOnlyAccepted ==
    /\ Len(copywriter.posts) <= 1
    /\ \A p \in 1..Len(copywriter.posts) :
          \E i \in Accepted :
             /\ i = Len(copywriter.crits)
             /\ copywriter.posts[p].post.content = copywriter.crits[i].slogans[1]
             /\ \E g \in GensOfCycle(copywriter.crits[i].cycle) :
                   copywriter.gens[g].reply.list = copywriter.crits[i].slogans
    /\ (CopywriterDone /\ Accepted = {}) =>
          /\ copywriter.outcome = "raised"
          /\ copywriter.posts = <<>>

C19_Witness ==
    /\ CopywriterDone
    /\ Accepted = {}
    /\ copywriter.attempts = 2
    /\ Len(copywriter.crits) = 1
    /\ \E g \in GensOfCycle(2) : copywriter.gens[g].reply.list = <<>>
                                   /\ copywriter.gens[g].reply.kind = "list"

\* A generation step of cycle k that used both attempts without a
\* parseable list.
GenerationStepFailed(k) ==
    /\ Cardinality(GensOfCycle(k)) = 2
    /\ \A g \in GensOfCycle(k) : Unparseable(copywriter.gens[g])

\* C20: every invocation ends; a generation step makes at most two
\* generation calls, and when neither yields a parseable list the
\* invocation fails with no submission and no further cycle; an
\* invocation makes at most four generation calls and two critique calls.
C20_BoundedWork ==
    /\ [](/\ Len(copywriter.gens) <= 4
          /\ Len(copywriter.crits) <= 2
          /\ \A k \in 1..2 :
                /\ Cardinality(GensOfCycle(k)) <= 2
                /\ GenerationStepFailed(k) =>
                      /\ CopywriterDone
                      /\ copywriter.outcome = "raised"
                      /\ copywriter.posts = <<>>
                      /\ \A j \in 1..Len(copywriter.gens) :
                            copywriter.gens[j].cycle <= k
          /\ \A j \in 1..Len(copywriter.gens) :
                copywriter.gens[j].cycle \in 1..2)
    /\ <>CopywriterDone

C20_Witness ==
    /\ CopywriterDone
    /\ Len(copywriter.gens) = 4
    /\ Len(copywriter.crits) = 1
    /\ GenerationStepFailed(2)

\* ------------------------------------------------------ decomposition
\* C21: a decomposition whose list holds no element with all four required
\* fields ends as a failure (a 4xx/5xx answer of POST /goals, a raised
\* invocation of the queue handler) and persists no contract.
C21_NothingValidIsFailure ==
    [][/\ \A list \in DecompositionLists :
            (GoalsManagerHandler(list) /\ ValidElements(list) = <<>>) =>
                /\ response'.statusCode >= 400
                /\ contracts' = contracts
       /\ (/\ decomposer.pc = "save"
           /\ ValidElements(decomposer.list) = <<>>
           /\ decomposer' # decomposer) =>
                /\ decomposer'.outcome = "raised"
                /\ contracts' = contracts]_vars

\* The step stored exactly the elements of `valid`, each as a new OPEN
\* contract under an id no contract had, all with one goal_id no contract
\* had, and changed no other contract.
Persisted(valid) ==
    LET new == DOMAIN contracts' \ DOMAIN contracts
    IN /\ DOMAIN contracts \subseteq DOMAIN contracts'
       /\ \A c \in DOMAIN contracts : contracts'[c] = contracts[c]
       /\ Cardinality(new) = Len(valid)
       /\ \E f \in [1..Len(valid) -> new] :
             /\ \A i, j \in 1..Len(valid) : f[i] = f[j] => i = j
             /\ \A i \in 1..Len(valid) :
                   /\ contracts'[f[i]].status = "OPEN"
                   /\ contracts'[f[i]].title = valid[i].title
                   /\ contracts'[f[i]].description = valid[i].description
                   /\ contracts'[f[i]].contract_type = valid[i].contract_type
       /\ \A c, d \in new : contracts'[c].goal_id = contracts'[d].goal_id
       /\ \A c \in new : contracts'[c].goal_id \notin GoalsUsed

\* C22: when no storage call fails, a decomposition result with at least
\* one element carrying all four fields succeeds and persists exactly those
\* elements, each OPEN, under a contract_id of its own and the goal's one
\* fresh goal_id.
C22_ValidElementsPersisted ==
    [][/\ \A list \in DecompositionLists :
            (GoalsManagerHandler(list) /\ ValidElements(list) # <<>>) =>
                /\ Persisted(ValidElements(list))
                /\ response'.statusCode = 202
       /\ (/\ decomposer.pc = "save"
           /\ ValidElements(decomposer.list) # <<>>
           /\ decomposer' # decomposer
           /\ faults' = faults) =>
                /\ Persisted(ValidElements(decomposer.list))
                /\ decomposer'.outcome # "raised"]_vars

\* C23: persisting a goal's contracts is all-or-nothing for the caller:
\* after a reported success every validated element of the goal is in the
\* Contracts table, and after a reported failure (an error answer of
\* POST /goals, a raised invocation of the queue handler) the step has
\* stored none.
C23_AllOrNothing ==
    [][/\ \A list \in DecompositionLists :
            (GoalsManagerHandler(list) /\ response'.statusCode = 202) =>
                Persisted(ValidElements(list))
       /\ (/\ decomposer' = decomposer
           /\ response'.handler = "goals"
           /\ response'.statusCode >= 400) => contracts' = contracts
       /\ (decomposer.pc = "save" /\ decomposer' # decomposer) =>
             IF decomposer'.outcome = "raised"
             THEN contracts' = contracts
             ELSE Persisted(ValidElements(decomposer.list))]_vars

\* The contracts stored for the goal message at `record` of the batch by
\* one delivery of the batch.
StoredBy(delivery, record) ==
    UNION { decomposer.saves[i].ids :
              i \in { j \in 1..Len(decomposer.saves) :
                        /\ decomposer.saves[j].delivery = delivery
                        /\ decomposer.saves[j].record = record } }

\* C24: once a delivery of a batch has been processed to its end, a
\* further delivery of the same messages stores no second set of contracts
\* for a goal the first delivery stored contracts for: the Contracts table
\* holds for that goal what the single delivery left.
C24_DuplicateDeliveryIsHarmless ==
    (Len(decomposer.outcomes) >= 1 /\ decomposer.outcomes[1] = "returned") =>
        \A record \in 1..Len(decomposer.batch), d \in 2..MaxDeliveries :
            StoredBy(1, record) # {} => StoredBy(d, record) = {}

\* C25: an invocation of the queue handler that ends has gone through every
\* goal message of its batch, also when processing one of them failed.
C25_FailureDoesNotStopBatch ==
    decomposer.pc = "done" => decomposer.next = Len(decomposer.batch)

\* ------------------------------------------------- Critic error paths
\* C26: when a storage call of an evaluation raises, a stream-triggered
\* invocation fails, so that the stream redelivers the record, and a
\* manual invocation answers with the structured 500 error.
C26_StorageErrorReachesTrigger ==
    [][\A t \in Triggers, c \in ContractIds :
          (CriticInvoke(t, c) /\ response'.kind = "error") =>
              IF t = "stream"
              THEN Handler(t, response').raised
              ELSE /\ ~Handler(t, response').raised
                   /\ Handler(t, response').response.statusCode = 500]_vars

\* C27: evaluating a contract id that is not in the Contracts table changes
\* no table; a manual invocation answers with a 4xx status, and a stream
\* invocation ends without failing.
C27_UnknownContract ==
    [][\A t \in Triggers, c \in ContractIds :
          (CriticInvoke(t, c) /\ response'.kind = "not_found") =>
              /\ UNCHANGED stores
              /\ ~Handler(t, response').raised
              /\ t = "manual" =>
                    Handler(t, response').response.statusCode \in 400..499]_vars

\* ---------------------------------------------------------------- cache
\* The step of a cached operation that reads the cache, taken in a state
\* where the cache holds an entry for the operation's prompt, went on with
\* the stored response and without a backend call.
SelectServedFromCache(e) ==
    LET key == SelectPrompt(e.contract_id, e.subs, e.reps)
    IN (CriticSelectLookup(e) /\ key \in DOMAIN cache) =>
          AfterSelect(e, cache[key].winning_submission_id)

ReformServedFromCache(e) ==
    LET key == ReformulatePrompt(e.contract_id)
    IN (CriticReformLookup(e) /\ key \in DOMAIN cache) =>
          Continue(e, [e EXCEPT !.text = cache[key].text,
                                !.pc = "mark_reposted"])

DeconstructServedFromCache ==
    LET user_goal == decomposer.batch[decomposer.next]
        key == DeconstructPrompt(user_goal)
    IN (/\ decomposer.pc = "lookup"
        /\ decomposer' # decomposer
        /\ user_goal # ""
        /\ key \in DOMAIN cache) =>
          /\ decomposer'.calls = decomposer.calls
          /\ DecomposerGot(decomposer, cache[key].text)

\* C28: on a cache hit, that is when the cache holds an entry for the
\* prompt and the cache read returns it, each of the three cached
\* operations (winner selection, reformulation, goal decomposition) goes
\* on with the stored response and makes no backend call; a repetition of
\* a prompt whose answer was stored is therefore served without the
\* backend.  (A cache read that raises is handled as a miss.)
C28_HitMeansNoBackendCall ==
    [][faults' = faults =>
          /\ \A e \in Evaluations : SelectServedFromCache(e)
          /\ \A e \in Evaluations : ReformServedFromCache(e)
          /\ DeconstructServedFromCache]_vars

\* A second delivery of a goal was decomposed from the cache: one backend
\* call in all, contracts saved by both deliveries.
C28_Witness ==
    /\ faults = 0
    /\ decomposer.pc = "done"
    /\ decomposer.deliveries = 2
    /\ decomposer.batch = <<"g1">>
    /\ decomposer.calls = <<"g1">>
    /\ StoredBy(1, 1) # {}
    /\ StoredBy(2, 1) # {}

\* C29: a backend answer that does not parse is not cached.  The operation
\* that got it raises and leaves the cache as it was, so a prompt that had
\* no entry still has none and its next invocation asks the backend again;
\* the cache changes only in the step that stores a parsed answer.
C29_UnparsedIsNotCached ==
    [][/\ \A e \in Evaluations :
            (CriticSelectLookup(e) /\ response'.kind = "select_failed") =>
                /\ cache' = cache
                /\ response'.statusCode = 500
       /\ (/\ decomposer.pc = "lookup"
           /\ decomposer'.calls # decomposer.calls
           /\ decomposer'.pc # "store") =>
                /\ decomposer'.outcome = "raised"
                /\ cache' = cache
       /\ cache' # cache =>
             \/ \E e \in Evaluations : e.pc \in {"select_store", "reform_store"}
             \/ decomposer.pc = "store"]_vars

\* A goal whose first answer did not parse was asked again on redelivery.
C29_Witness ==
    /\ faults = 0
    /\ decomposer.batch = <<"g1">>
    /\ decomposer.outcomes = <<"raised", "returned">>
    /\ decomposer.calls = <<"g1", "g1">>
    /\ DeconstructPrompt("g1") \in DOMAIN cache

\* ------------------------------------------------- submission handler
\* The step added exactly one row, under an id no row had, for the
\* invocation's contract and agent, not marked as winner, and changed no
\* other row.
RowWritten(w) ==
    LET new == DOMAIN submissions' \ DOMAIN submissions
    IN /\ Cardinality(new) = 1
       /\ \A s \in DOMAIN submissions :
             s \in DOMAIN submissions' /\ submissions'[s] = submissions[s]
       /\ \A s \in new :
             /\ submissions'[s].contract_id = submitter[w].contract_id
             /\ submissions'[s].agent_id = submitter[w].agent_id
             /\ submissions'[s].is_winner = FALSE

\* C30: the submission handler goes on to its write exactly when the
\* request has its fields and the contract exists with status OPEN; the
\* write adds exactly one row, with a fresh submission_id, that
\* contract_id and is_winner false, and answers 201; no row appears in any
\* other way.  A request with a missing field is answered 400 and one for
\* an unknown contract 404, with no row written.  (A storage call that
\* raises is the handler's 500, also with no row.)
C30_RowIffValidAndOpen ==
    [][/\ \A w \in Submitters, c \in ContractIds, a \in AgentIds \cup {""} :
            SubmitInvoke(w, c, a) =>
                /\ submissions' = submissions
                /\ submitter'[w].pc = "put" <=>
                      /\ a # ""
                      /\ c \in DOMAIN contracts
                      /\ contracts[c].status = "OPEN"
                      /\ faults' = faults
                /\ a = "" => response' = Response("submissions", 400, "bad_request")
                /\ (a # "" /\ c \notin DOMAIN contracts /\ faults' = faults) =>
                      response' = Response("submissions", 404, "not_found")
       /\ \A w \in Submitters :
            SubmitPut(w) =>
                IF faults' = faults
                THEN /\ RowWritten(w)
                     /\ response' = Response("submissions", 201, "created")
                ELSE /\ submissions' = submissions
                     /\ response' = Response("submissions", 500, "error")
       /\ DOMAIN submissions' # DOMAIN submissions =>
             \E w \in Submitters : submitter[w].pc = "put" /\ RowWritten(w)]_vars

C30_Witness ==
    /\ response = Response("submissions", 201, "created")
    /\ Cardinality(DOMAIN submissions) = 2
    /\ \E s \in DOMAIN submissions :
          /\ submissions[s].is_winner = FALSE
          /\ submissions[s].contract_id \in DOMAIN contracts

\* C31: submissions are never deleted and is_winner only changes from
\* false to true: in every step, each stored submission row is still stored
\* afterwards, and a row marked as winner is still marked as winner.
C31_SubmissionsOnlyGrow ==
    [][\A s \in DOMAIN submissions :
          /\ s \in DOMAIN submissions'
          /\ submissions[s].is_winner => submissions'[s].is_winner]_vars

\* A row marked as winner next to a later row that is not, all evaluations
\* over.
C31_Witness ==
    \E s, t \in DOMAIN submissions :
        /\ s < t
        /\ submissions[s].is_winner
        /\ ~submissions[t].is_winner
        /\ critic = EmptyBag

\* C32: a submission is marked as winner only while its contract is CLOSED
\* or an evaluation of that contract is in progress: no OPEN contract with
\* no evaluation in flight has a submission with is_winner = true.
C32_WinnerOnlyWhenClosed ==
    \A c \in DOMAIN contracts :
        (contracts[c].status = "OPEN" /\ EvaluationsOf(c) = {}) =>
            Winners(c) = {}

\* C33: the stream handler starts an evaluation only for an INSERT record
\* that carries a contract_id.  Handing over a MODIFY record, such as the
\* one the Critic's own is_winner update produces, starts no evaluation and
\* changes no table; and every evaluation that starts in a step of the
\* stream handler is for the contract of an INSERT record handed over in
\* that step.
C33_OnlyInsertStartsEvaluation ==
    [][\A record \in stream :
          /\ (record.eventName = "MODIFY" /\ CriticStreamRecord(record)) =>
                /\ UNCHANGED stores
                /\ UNCHANGED critic
                /\ response' = Response("handler", 200, "stream_processed")
          /\ (CriticStreamRecord(record) /\ critic' # critic) =>
                /\ record.eventName = "INSERT"
                /\ critic' = critic (+)
                      SetToBag({NewEvaluation(record.contract_id)})]_vars

\* The MODIFY record of a winner update has been handed over and dropped:
\* the row is marked, no MODIFY record is left, and the handler answered.
C33_Witness ==
    /\ \E s \in DOMAIN submissions : submissions[s].is_winner
    /\ \A record \in stream : record.eventName # "MODIFY"
    /\ response = Response("handler", 200, "stream_processed")

\* C34: with every INSERT record handed to the Critic and failures that
\* are transient, every contract that has received a submission is
\* eventually CLOSED, with no further submission and no manual invocation.
C34_SubmittedContractCloses ==
    \A c \in ContractIds :
        (c \in DOMAIN contracts /\ SubmissionsForContract(c) # {})
            ~> (c \in DOMAIN contracts /\ contracts[c].status = "CLOSED")

\* The evaluation's winner is one of the submissions it fetched, and a row
\* of the contract it evaluates.
WinnerIsFetched(e) ==
    /\ e.winner \in e.subs
    /\ e.winner \in DOMAIN submissions
    /\ submissions[e.winner].contract_id = e.contract_id

\* C35: the Critic marks a submission as winner, increments a reputation
\* and writes a Result only for a submission of the contract under
\* evaluation that was in the set fetched for that evaluation.  An
\* evaluation enters the three writes only with such a winner, so a
\* winning_submission_id that names a row of another contract, or no row,
\* sets is_winner nowhere; and each of the three writes is made by an
\* evaluation for its own fetched winner.
C35_OnlyFetchedSubmissionWins ==
    [][/\ \A e \in BagToSet(critic') :
             e.pc \in {"update_winner", "update_reputation", "save_result"}
                => /\ e.winner \in e.subs
                   /\ submissions'[e.winner].contract_id = e.contract_id
       /\ \A s \in DOMAIN submissions' :
             (submissions'[s].is_winner
                /\ (s \in DOMAIN submissions => ~submissions[s].is_winner))
             => \E e \in Evaluations :
                   /\ e.pc = "update_winner"
                   /\ e.winner = s
                   /\ WinnerIsFetched(e)
       /\ \A c \in ContractIds :
             increments'[c] # increments[c]
             => \E e \in Evaluations :
                   /\ e.pc = "update_reputation"
                   /\ e.contract_id = c
                   /\ WinnerIsFetched(e)
                   /\ agents'[submissions[e.winner].agent_id]
                         = Reputation(submissions[e.winner].agent_id) + 1
       /\ results' # results
             => \E e \in Evaluations :
                   /\ e.pc = "save_result"
                   /\ WinnerIsFetched(e)
                   /\ results' = Put(results, ContractKey(e.contract_id),
                                     ResultItem(e.winner))]_vars

\* The judge named a row of another contract: the evaluation is over, the
\* contract is CLOSED, and no row is marked and no Result is written.
C35_Witness ==
    \E c \in DOMAIN contracts, k \in DOMAIN cache :
        /\ contracts[c].status = "CLOSED"
        /\ k.op = "select_winner"
        /\ k.title = contracts[c].title
        /\ cache[k].winning_submission_id \in DOMAIN submissions
        /\ submissions[cache[k].winning_submission_id].contract_id # c
        /\ \A s \in DOMAIN submissions : ~submissions[s].is_winner
        /\ results = EmptyTable
        /\ critic = EmptyBag

\* C36: every cache entry written by winner selection carries a non-empty
\* winning_submission_id.
C36_CachedDecisionNamesWinner ==
    \A k \in DOMAIN cache :
        k.op = "select_winner" => cache[k].winning_submission_id # NoWinner

\* C37: the results query for a goal answers 200 with status COMPLETED if
\* and only if at least one Result record exists under that goal_id, and
\* with PROCESSING otherwise; it changes no table.
C37_CompletedIffSomeResult ==
    [][\A g \in 1..(MaxGoals + 1) :
          (ResultsManagerHandler(g) /\ faults' = faults) =>
             /\ response'.handler = "results"
             /\ response'.statusCode = 200
             /\ response'.kind \in {"COMPLETED", "PROCESSING"}
             /\ response'.kind = "COMPLETED"
                   <=> \E c \in ContractIds : <<g, c>> \in DOMAIN results
             /\ UNCHANGED stores]_vars

\* COMPLETED is reported for a goal one of whose contracts is CLOSED with
\* its Result while another contract of the same goal is still OPEN.
C37_Witness ==
    /\ response = Response("results", 200, "COMPLETED")
    /\ \E c, d \in DOMAIN contracts :
          /\ contracts[c].goal_id = contracts[d].goal_id
          /\ contracts[c].status = "CLOSED"
          /\ ContractKey(c) \in DOMAIN results
          /\ contracts[d].status = "OPEN"
          /\ ContractKey(d) \notin DOMAIN results

\* The degraded default: the original description with the failure note.
Degraded(c) == Append(contracts[c].description, FailNote)

C39_RepostedHasNoSubmission ==
    \A c \in DOMAIN contracts :
        contracts[c].status = "FAILED_REPOSTED" =>
            SubmissionsForContract(c) = {}

====
